---- MODULE Spec2Model ----
(***************************************************************************)
(* Athena_AI (rag-pdf): the ingestion -> chunking -> indexing pipeline of  *)
(* upload_ingest_faiss.py and the retrieval entry of rag_chat.py.          *)
(*                                                                         *)
(* Text is a sequence of one-character strings.  "a" stands for any        *)
(* printing character, " " and "\n" for whitespace.                        *)
(*                                                                         *)
(* Two specifications share the module:                                    *)
(*   SpecChunk  one run of chunks_from_pages, one loop step per action,    *)
(*              over every page sequence and (chunk_size, overlap) pair    *)
(*              within the bounds;                                         *)
(*   Spec       the upload endpoint, the ingestion jobs, the files they    *)
(*              write and answer_question.                                 *)
(***************************************************************************)
EXTENDS Integers, Sequences, FiniteSets, TLC

\* ------------------------------------------------------------------ bounds
MaxPages == 3
MaxText == 2
MaxChunk == 4
MaxTotal == 4
MaxUploads == 2

\* ------------------------------------------------------------------ program constants
\* MAX_BYTES = 200 * 1024 * 1024, and the block of one file.read(1024 * 1024)
MAX_BYTES == 209715200
READ_BLOCK == 1048576
\* the defaults chunks_from_pages is called with (1200 and 200 characters),
\* at a scale of 200 characters to one character of the model
DEFAULT_CHUNK_SIZE == 6
DEFAULT_OVERLAP == 1

\* ------------------------------------------------------------------ text
NL == "\n"
Chars == {"a", " "}
Whitespace == {" ", NL}

Min(a, b) == IF a < b THEN a ELSE b

\* str.strip(): drop leading and trailing whitespace
RECURSIVE LeadingSpace(_)
LeadingSpace(s) ==
    IF s = <<>> \/ Head(s) \notin Whitespace THEN 0 ELSE 1 + LeadingSpace(Tail(s))

RECURSIVE TrailingSpace(_)
TrailingSpace(s) ==
    IF s = <<>> \/ s[Len(s)] \notin Whitespace THEN 0
    ELSE 1 + TrailingSpace(SubSeq(s, 1, Len(s) - 1))

Strip(s) ==
    IF LeadingSpace(s) = Len(s) THEN <<>>
    ELSE SubSeq(s, LeadingSpace(s) + 1, Len(s) - TrailingSpace(s))

\* s[:n] and s[n:] for n >= 0
SliceTo(s, n) == SubSeq(s, 1, Min(n, Len(s)))
SliceFrom(s, n) == SubSeq(s, n + 1, Len(s))

\* sorted(set_of_ints): the ascending list
RECURSIVE Sorted(_)
Sorted(S) ==
    IF S = {} THEN <<>>
    ELSE LET m == CHOOSE x \in S : \A y \in S : x <= y
         IN <<m>> \o Sorted(S \ {m})

\* ------------------------------------------------------------------ chunks_from_pages
\* the loop state is [buffer, buffer_pages]; a page is <<page_num, page_text>>

EmptyBuffer == [buffer |-> <<>>, buffer_pages |-> {}]

\* buffer += "\n" + page_text ; buffer_pages.add(page_num)
AppendPage(st, page) ==
    [buffer |-> st.buffer \o <<NL>> \o page[2],
     buffer_pages |-> st.buffer_pages \cup {page[1]}]

\* (mutation of WindowChunk: the window is cut one character too long)
WindowChunk_OffByOne(st, size) ==
    [text |-> Strip(SliceTo(st.buffer, size + 1)), pages |-> Sorted(st.buffer_pages)]

\* the dict yielded inside the while loop
WindowChunk(st, size) ==
    [text |-> Strip(SliceTo(st.buffer, size)), pages |-> Sorted(st.buffer_pages)]

\* (mutation of Slide: the page set is kept across the emission)
Slide_KeepsPages(st, size, ovl) ==
    [buffer |-> SliceFrom(st.buffer, size - ovl), buffer_pages |-> st.buffer_pages]

\* (mutation of Slide: the whole window is dropped, no overlap is kept)
Slide_NoOverlap(st, size, ovl) ==
    [buffer |-> SliceFrom(st.buffer, size), buffer_pages |-> {}]

\* buffer = buffer[chunk_size - overlap:] ; buffer_pages = set()
Slide(st, size, ovl) ==
    [buffer |-> SliceFrom(st.buffer, size - ovl), buffer_pages |-> {}]

\* (mutation of RemainderChunk: the remainder is yielded untrimmed)
RemainderChunk_NoStrip(st) ==
    [text |-> st.buffer, pages |-> Sorted(st.buffer_pages)]

\* the dict yielded after the for loop
RemainderChunk(st) ==
    [text |-> Strip(st.buffer), pages |-> Sorted(st.buffer_pages)]

\* while len(buffer) >= chunk_size: yield ...; slide        -> <<state, yielded>>
RECURSIVE WhileLoop(_, _, _, _)
WhileLoop(st, out, size, ovl) ==
    IF Len(st.buffer) >= size
    THEN WhileLoop(Slide(st, size, ovl), Append(out, WindowChunk(st, size)), size, ovl)
    ELSE <<st, out>>

RECURSIVE ForLoop(_, _, _, _, _)
ForLoop(pgs, st, out, size, ovl) ==
    IF pgs = <<>> THEN <<st, out>>
    ELSE LET r == WhileLoop(AppendPage(st, Head(pgs)), out, size, ovl)
         IN ForLoop(Tail(pgs), r[1], r[2], size, ovl)

\* list(chunks_from_pages(pages, chunk_size, overlap))
ChunksFromPages(pgs, size, ovl) ==
    LET r == ForLoop(pgs, EmptyBuffer, <<>>, size, ovl)
    IN IF Strip(r[1].buffer) # <<>> THEN Append(r[2], RemainderChunk(r[1])) ELSE r[2]

\* metadatas = [{"source": original_filename, "pages": c["pages"]} for c in chunk_objs]
Metadatas(chunk_objs, original_filename) ==
    [i \in 1..Len(chunk_objs) |->
        [source |-> original_filename, pages |-> chunk_objs[i].pages]]

\* texts = [c["text"] for c in chunk_objs]
TextsOf(chunk_objs) == [i \in 1..Len(chunk_objs) |-> chunk_objs[i].text]

\* extract_text_page_by_page: pages are numbered 1, 2, ... in document order
NumberPages(texts) == [i \in 1..Len(texts) |-> <<i, texts[i]>>]

\* ------------------------------------------------------------------ state
VARIABLES
    \* one run of chunks_from_pages (SpecChunk)
    chunk_size, overlap,     \* the arguments
    all_pages,               \* the page sequence given
    pages,                   \* what the for loop has not consumed yet
    buf,                     \* [buffer, buffer_pages]
    chunks,                  \* the chunks yielded so far
    cpc,                     \* "for" | "while" | "done"
    origin,                  \* per buffer character, the page it came from (0: separator)
    spans                    \* per yielded chunk, the pages its text comes from

chunkVars == <<chunk_size, overlap, all_pages, pages, buf, chunks, cpc, origin, spans>>

VARIABLES
    \* the deployment (Spec)
    env,                     \* OPENAI_API_KEY set? [ingest, chat]: one flag per process
    faiss_dir,               \* does ./faiss_store (and ./faiss_store/pending) exist
    index_faiss,             \* ./faiss_store/index.faiss: the vectors, or NoFile
    index_pkl,               \* ./faiss_store/index.pkl: the docstore, or NoFile
    pending,                 \* hash -> contents of pending_<hash>.json, or NoFile
    uploads,                 \* the temp files that exist in ./uploads
    log,                     \* the lines of indexing_errors.log
    req,                     \* per upload request: position and response
    job,                     \* per upload request: its run of process_and_index_faiss
    answer                   \* the outcome of the last answer_question call

sysVars == <<env, faiss_dir, index_faiss, index_pkl, pending, uploads, log, req, job, answer>>
vars == <<chunkVars, sysVars>>

\* ------------------------------------------------------------------ the deployment
\* the invocations: POST /upload requests and runs of run_index_sync.py
Reqs == 1..MaxUploads

\* a path holds no file, or a file with some content
NoFile == <<>>
File(content) == <<content>>
Content(file) == file[1]

Absent == "absent"
None == "None"
NoName == [stem |-> "", ext |-> ""]
NoError == [type |-> "none", status_code |-> 0, detail |-> ""]

\* the documents a client may send: the bytes stand for themselves; a size and
\* the page texts an extraction of them yields
Docs == {"blank", "tiny", "short", "long", "huge"}

DocSize(d) ==
    CASE d = "blank" -> 2048
      [] d = "tiny" -> 1
      [] d = "short" -> READ_BLOCK + 1
      [] d = "long" -> MAX_BYTES
      [] d = "huge" -> MAX_BYTES + 1

DocPageTexts(d) ==
    CASE d = "blank" -> << <<>>, <<" ">> >>
      [] d = "tiny" -> << <<"a">> >>
      [] d = "short" -> << <<"a", "a">> >>
      [] d = "long" -> << <<"a", "a">>, <<"a", "a", "a", "a">>, <<"a", " ", "a">> >>
      [] d = "huge" -> << <<"a">> >>

\* file.filename, as its stem and its extension
Filenames ==
    {[stem |-> "a", ext |-> ".pdf"], [stem |-> "b", ext |-> ".PDF"],
     [stem |-> "notes", ext |-> ".txt"]}

\* str.lower() on an extension
Lower(ext) == IF ext = ".PDF" THEN ".pdf" ELSE ext

\* fname.lower().endswith(".pdf")
EndsWithPdf(fname) == Lower(fname.ext) = ".pdf"

\* sha256_of_file: the digest of the file's bytes
sha256_of_file(bytes) == <<"sha256", bytes>>

\* the third argument run_index_sync.py passes for every document: "manual-run"
MANUAL_RUN == <<"manual-run">>

\* the values process_and_index_faiss gets as file_hash
Hashes == {sha256_of_file(d) : d \in Docs} \cup {MANUAL_RUN}

\* os.path.basename of the temp file mkstemp made for request r
TempName(r) == [stem |-> "tmp" \o ToString(r), ext |-> ".pdf"]

FileNotFoundError == [type |-> "FileNotFoundError", status_code |-> 0, detail |-> "pdf_path"]

\* extract_text_page_by_page(pdf_path), on the bytes of the file
extract_text_page_by_page(bytes) == NumberPages(DocPageTexts(bytes))

\* the while loop of upload_pdf over a body of `total` bytes: every read returns
\* up to READ_BLOCK bytes, size is the count after the k-th read, and the loop
\* is left at the first read that takes size over MAX_BYTES
SizeAfterRead(total, k) == Min(k * READ_BLOCK, total)

ReadLoop(total) ==
    LET reads == (total + READ_BLOCK - 1) \div READ_BLOCK
    IN [too_large |-> \E k \in 1..reads : SizeAfterRead(total, k) > MAX_BYTES,
        reads |-> reads]

HTTPException(status_code, detail) ==
    [type |-> "HTTPException", status_code |-> status_code, detail |-> detail]

\* (mutation of RuntimeError: the error is raised as a client error)
RuntimeError_AsHTTP(msg) == [type |-> "HTTPException", status_code |-> 400, detail |-> msg]

RuntimeError(msg) == [type |-> "RuntimeError", status_code |-> 0, detail |-> msg]

\* except Exception as e: ... raise HTTPException(status_code=500, detail=str(e))
ExceptClause(e) == HTTPException(500, <<"str", e.type, e.status_code, e.detail>>)

\* an I/O error of the operating system, as open, write or read raise it
OSError(what) == [type |-> "OSError", status_code |-> 0, detail |-> what]

\* (mutation of ExceptRemove: the except clause leaves the temp file)
ExceptRemove_Keeps(file) == file

\* if os.path.exists(temp_path): os.remove(temp_path)
ExceptRemove(file) == IF file # NoFile THEN NoFile ELSE file

\* (mutation of init_embedder: an embedder is returned whether or not the key is set)
init_embedder_AlwaysOn(key_set) == "OpenAIEmbeddings"

\* init_embedder(): the embedder if OPENAI_API_KEY is set, else None
init_embedder(key_set) == IF key_set THEN "OpenAIEmbeddings" ELSE None

\* os.path.join(PENDING_DIR, f"pending_{file_hash}.json")
PendingPath(file_hash) == <<"./faiss_store/pending", "pending_", file_hash, ".json">>

\* (mutation of PendingBatch: the metadata list is not written)
PendingBatch_NoMetadata(original_filename, file_hash, texts, metadatas) ==
    [filename |-> original_filename, file_hash |-> file_hash,
     chunks |-> texts, metadatas |-> <<>>]

\* (mutation of PendingBatch: the file name of the upload is not written)
PendingBatch_NoFilename(original_filename, file_hash, texts, metadatas) ==
    [filename |-> NoName, file_hash |-> file_hash,
     chunks |-> texts, metadatas |-> metadatas]

\* the dict json.dump writes to the pending file
PendingBatch(original_filename, file_hash, texts, metadatas) ==
    [filename |-> original_filename, file_hash |-> file_hash,
     chunks |-> texts, metadatas |-> metadatas]

\* FAISS.from_texts: one vector per text, and the docstore entry of each
Embed(text) == <<"vec", text>>
Vectors(texts) == [i \in 1..Len(texts) |-> Embed(texts[i])]
Docstore(texts, metadatas) ==
    [i \in 1..Len(texts) |-> [page_content |-> texts[i], metadata |-> metadatas[i]]]

NoResult == [status |-> "none", reason |-> Absent, pending_file |-> <<>>,
             chunks |-> 0, faiss_dir |-> Absent]

NoJob == [pc |-> "none", pdf_path |-> 0, original_filename |-> NoName,
          file_hash |-> <<>>, inline |-> FALSE, texts |-> <<>>, metadatas |-> <<>>,
          index_before |-> <<>>, result |-> NoResult, error |-> NoError]

NoResponse == [status_code |-> 0, body |-> Absent]

NoRequest == [pc |-> "idle", filename |-> NoName, body |-> "", resp |-> NoResponse]

NoAnswer == [kind |-> "none", text |-> Absent, sources |-> <<>>, context |-> <<>>]

\* the state in which nothing of the deployment runs (SpecChunk holds it fixed)
SysIdle ==
    /\ env = [ingest |-> FALSE, chat |-> FALSE]
    /\ faiss_dir = FALSE
    /\ index_faiss = NoFile
    /\ index_pkl = NoFile
    /\ pending = [h \in Hashes |-> NoFile]
    /\ uploads = [r \in Reqs |-> NoFile]
    /\ log = <<>>
    /\ req = [r \in Reqs |-> NoRequest]
    /\ job = [r \in Reqs |-> NoJob]
    /\ answer = NoAnswer

\* ------------------------------------------------------------------ SpecChunk
RECURSIVE SeqsUpTo(_, _)
SeqsUpTo(S, n) ==
    IF n = 0 THEN {<<>>}
    ELSE LET shorter == SeqsUpTo(S, n - 1)
         IN shorter \cup {Append(s, x) : s \in {t \in shorter : Len(t) = n - 1}, x \in S}

\* up to MaxPages page texts of up to MaxText characters, MaxTotal in all
RECURSIVE SumLen(_)
SumLen(texts) == IF texts = <<>> THEN 0 ELSE Len(Head(texts)) + SumLen(Tail(texts))

Texts == SeqsUpTo(Chars, MaxText)
PageTexts == {s \in SeqsUpTo(Texts, MaxPages) : SumLen(s) <= MaxTotal}

\* the pages whose characters are left in a window after strip()
SpanOf(text, org) ==
    IF LeadingSpace(text) = Len(text) THEN {}
    ELSE {org[i] : i \in (LeadingSpace(text) + 1)..(Len(text) - TrailingSpace(text))} \ {0}

InitChunk ==
    /\ chunk_size \in 2..MaxChunk
    /\ overlap \in 0..(chunk_size - 1)
    /\ all_pages \in {NumberPages(t) : t \in PageTexts}
    /\ pages = all_pages
    /\ buf = EmptyBuffer
    /\ chunks = <<>>
    /\ cpc = "for"
    /\ origin = <<>>
    /\ spans = <<>>
    /\ SysIdle

\* for page_num, page_text in pages: append the page
NextPage ==
    /\ cpc = "for"
    /\ pages # <<>>
    /\ buf' = AppendPage(buf, Head(pages))
    /\ origin' = origin \o <<0>> \o [i \in 1..Len(Head(pages)[2]) |-> Head(pages)[1]]
    /\ pages' = Tail(pages)
    /\ cpc' = "while"
    /\ UNCHANGED <<chunk_size, overlap, all_pages, chunks, spans>>
    /\ UNCHANGED sysVars

\* while len(buffer) >= chunk_size: yield the window and slide
YieldWindow ==
    /\ cpc = "while"
    /\ Len(buf.buffer) >= chunk_size
    /\ chunks' = Append(chunks, WindowChunk(buf, chunk_size))
    /\ spans' = Append(spans, SpanOf(SliceTo(buf.buffer, chunk_size),
                                     SliceTo(origin, chunk_size)))
    /\ buf' = Slide(buf, chunk_size, overlap)
    /\ origin' = SliceFrom(origin, chunk_size - overlap)
    /\ UNCHANGED <<chunk_size, overlap, all_pages, pages, cpc>>
    /\ UNCHANGED sysVars

\* the while condition is false: back to the for loop
WhileExit ==
    /\ cpc = "while"
    /\ Len(buf.buffer) < chunk_size
    /\ cpc' = "for"
    /\ UNCHANGED <<chunk_size, overlap, all_pages, pages, buf, chunks, origin, spans>>
    /\ UNCHANGED sysVars

\* after the for loop: if buffer.strip(): yield the remainder
Remainder ==
    /\ cpc = "for"
    /\ pages = <<>>
    /\ IF Strip(buf.buffer) # <<>>
       THEN /\ chunks' = Append(chunks, RemainderChunk(buf))
            /\ spans' = Append(spans, SpanOf(buf.buffer, origin))
       ELSE UNCHANGED <<chunks, spans>>
    /\ cpc' = "done"
    /\ UNCHANGED <<chunk_size, overlap, all_pages, pages, buf, origin>>
    /\ UNCHANGED sysVars

NextChunk == NextPage \/ YieldWindow \/ WhileExit \/ Remainder

SpecChunk == InitChunk /\ [][NextChunk]_vars /\ WF_vars(NextChunk)

\* ------------------------------------------------------------------ Spec: the deployment
Init ==
    /\ env \in [ingest : BOOLEAN, chat : BOOLEAN]
    /\ faiss_dir = FALSE
    /\ index_faiss = NoFile
    /\ index_pkl = NoFile
    /\ pending = [h \in Hashes |-> NoFile]
    /\ uploads = [r \in Reqs |-> NoFile]
    /\ log = <<>>
    /\ req = [r \in Reqs |-> NoRequest]
    /\ job = [r \in Reqs |-> NoJob]
    /\ answer = NoAnswer
    /\ chunk_size = DEFAULT_CHUNK_SIZE
    /\ overlap = DEFAULT_OVERLAP
    /\ all_pages = <<>>
    /\ pages = <<>>
    /\ buf = EmptyBuffer
    /\ chunks = <<>>
    /\ cpc = "idle"
    /\ origin = <<>>
    /\ spans = <<>>

\* import of upload_ingest_faiss: os.makedirs(FAISS_DIR), os.makedirs(PENDING_DIR)
StartIngestion ==
    /\ ~faiss_dir
    /\ faiss_dir' = TRUE
    /\ UNCHANGED <<env, index_faiss, index_pkl, pending, uploads, log, req, job, answer>>
    /\ UNCHANGED chunkVars

\* POST /upload, up to the point where the pipeline is dispatched
UploadPdf(r) ==
    /\ faiss_dir
    /\ req[r].pc = "idle"
    /\ \A q \in Reqs : q < r => req[q].pc # "idle"
    /\ \E bytes \in Docs, fname \in Filenames, background \in BOOLEAN :
        IF ~EndsWithPdf(fname)
        THEN \* raise HTTPException(400) before the try block
             /\ req' = [req EXCEPT ![r] =
                    [pc |-> "done", filename |-> fname, body |-> bytes,
                     resp |-> [status_code |-> 400,
                               body |-> HTTPException(400, "Only PDF files are accepted.")]]]
             /\ UNCHANGED <<uploads, job>>
        ELSE IF ReadLoop(DocSize(bytes)).too_large
        THEN \* os.remove(temp_path); raise HTTPException(413): caught by
             \* `except Exception`, where the file is gone already, and re-raised
             /\ req' = [req EXCEPT ![r] =
                    [pc |-> "done", filename |-> fname, body |-> bytes,
                     resp |-> [status_code |-> 500,
                               body |-> ExceptClause(HTTPException(413, "File too large."))]]]
             /\ uploads' = [uploads EXCEPT ![r] = ExceptRemove(NoFile)]
             /\ UNCHANGED job
        ELSE \/ \* file.read or out.write raises: the temp file is there, partly
                \* written, when the except clause runs
                /\ req' = [req EXCEPT ![r] =
                       [pc |-> "done", filename |-> fname, body |-> bytes,
                        resp |-> [status_code |-> 500,
                                  body |-> ExceptClause(OSError("write"))]]]
                /\ uploads' = [uploads EXCEPT ![r] = ExceptRemove(File("partial"))]
                /\ UNCHANGED job
             \/ \* sha256_of_file raises: the temp file is there, complete
                /\ req' = [req EXCEPT ![r] =
                       [pc |-> "done", filename |-> fname, body |-> bytes,
                        resp |-> [status_code |-> 500,
                                  body |-> ExceptClause(OSError("read"))]]]
                /\ uploads' = [uploads EXCEPT ![r] = ExceptRemove(File(bytes))]
                /\ UNCHANGED job
             \/ LET file_hash == sha256_of_file(bytes)
                IN /\ uploads' = [uploads EXCEPT ![r] = File(bytes)]
                   /\ job' = [job EXCEPT ![r] =
                          [NoJob EXCEPT !.pc = "queued", !.pdf_path = r,
                                        !.original_filename = fname,
                                        !.file_hash = file_hash,
                                        !.inline = ~background]]
                   /\ req' = [req EXCEPT ![r] =
                          IF background
                          THEN [pc |-> "done", filename |-> fname, body |-> bytes,
                                resp |-> [status_code |-> 200,
                                          body |-> [status |-> "uploaded", hash |-> file_hash]]]
                          ELSE [pc |-> "inline", filename |-> fname, body |-> bytes,
                                resp |-> NoResponse]]
    /\ UNCHANGED <<env, faiss_dir, index_faiss, index_pkl, pending, log, answer>>
    /\ UNCHANGED chunkVars

\* python run_index_sync.py: the last of the files glob finds in ./uploads, in
\* whatever order the directory lists them, is handed to process_and_index_faiss
\* under its base name and the fixed key "manual-run"
RunIndexSync(r) ==
    /\ req[r].pc = "idle"
    /\ \A q \in Reqs : q < r => req[q].pc # "idle"
    /\ \E src \in Reqs :
        /\ uploads[src] # NoFile
        /\ job' = [job EXCEPT ![r] =
               [NoJob EXCEPT !.pc = "queued", !.pdf_path = src,
                             !.original_filename = TempName(src),
                             !.file_hash = MANUAL_RUN,
                             !.inline = TRUE]]
    /\ req' = [req EXCEPT ![r].pc = "script"]
    /\ UNCHANGED <<env, faiss_dir, index_faiss, index_pkl, pending, uploads, log, answer>>
    /\ UNCHANGED chunkVars

\* the pending file is written, the log line appended and pending_embeddings returned
QueuePending(j, texts, metadatas, reason, line) ==
    /\ pending' = [pending EXCEPT ![job[j].file_hash] =
           File(PendingBatch(job[j].original_filename, job[j].file_hash,
                             texts, metadatas))]
    /\ log' = Append(log, line)
    /\ job' = [job EXCEPT ![j].pc = "returned",
                          ![j].texts = texts,
                          ![j].metadatas = metadatas,
                          ![j].result =
                              [status |-> "pending_embeddings", reason |-> reason,
                               pending_file |-> PendingPath(job[j].file_hash),
                               chunks |-> Len(texts), faiss_dir |-> Absent]]

\* process_and_index_faiss, steps 1 to 4: extract, chunk, texts and metadatas,
\* init_embedder, and the whole of the branch taken when there is no embedder
JobStart(j) ==
    /\ job[j].pc = "queued"
    /\ LET chunk_objs == ChunksFromPages(extract_text_page_by_page(Content(uploads[job[j].pdf_path])),
                                         DEFAULT_CHUNK_SIZE, DEFAULT_OVERLAP)
           texts == TextsOf(chunk_objs)
           metadatas == Metadatas(chunk_objs, job[j].original_filename)
       IN IF uploads[job[j].pdf_path] = NoFile
          THEN \* PdfReader(pdf_path): the file is gone
               /\ job' = [job EXCEPT ![j].pc = "raised", ![j].error = FileNotFoundError]
               /\ UNCHANGED <<pending, log>>
          ELSE IF chunk_objs = <<>>
          THEN /\ job' = [job EXCEPT ![j].pc = "raised",
                              ![j].error = RuntimeError("No chunks extracted from PDF")]
               /\ UNCHANGED <<pending, log>>
          ELSE IF init_embedder(env.ingest) = None
          THEN QueuePending(j, texts, metadatas, Absent,
                            <<"No embedding key found", PendingPath(job[j].file_hash)>>)
          ELSE /\ job' = [job EXCEPT ![j].pc = "from_texts",
                              ![j].texts = texts,
                              ![j].metadatas = metadatas,
                              ![j].index_before = <<index_faiss, index_pkl>>]
               /\ UNCHANGED <<pending, log>>
    /\ UNCHANGED <<env, faiss_dir, index_faiss, index_pkl, uploads, req, answer>>
    /\ UNCHANGED chunkVars

\* except Exception as e: the pending file is written with the reason
ExceptPending(j, err) ==
    QueuePending(j, job[j].texts, job[j].metadatas, err, <<"Embedding/indexing error", err>>)

\* FAISS.from_texts(texts, embedder, metadatas): the embedding calls, which may fail
FromTexts(j) ==
    /\ job[j].pc = "from_texts"
    /\ \/ /\ job' = [job EXCEPT ![j].pc = "save_faiss"]
          /\ UNCHANGED <<pending, log>>
       \/ ExceptPending(j, "embedding failed")
    /\ UNCHANGED <<env, faiss_dir, index_faiss, index_pkl, uploads, req, answer>>
    /\ UNCHANGED chunkVars

\* save_local, first file: index.faiss is written, or the write fails
SaveFaiss(j) ==
    /\ job[j].pc = "save_faiss"
    /\ \/ /\ index_faiss' = File(Vectors(job[j].texts))
          /\ job' = [job EXCEPT ![j].pc = "save_pkl"]
          /\ UNCHANGED <<pending, log>>
       \/ /\ ExceptPending(j, "index.faiss not written")
          /\ UNCHANGED index_faiss
    /\ UNCHANGED <<env, faiss_dir, index_pkl, uploads, req, answer>>
    /\ UNCHANGED chunkVars

\* save_local, second file: index.pkl is written and "indexed" returned, or the
\* write fails
SavePkl(j) ==
    /\ job[j].pc = "save_pkl"
    /\ \/ /\ index_pkl' = File(Docstore(job[j].texts, job[j].metadatas))
          /\ job' = [job EXCEPT ![j].pc = "returned",
                                ![j].result =
                                    [status |-> "indexed", reason |-> Absent,
                                     pending_file |-> <<>>,
                                     chunks |-> Len(job[j].texts),
                                     faiss_dir |-> "./faiss_store"]]
          /\ UNCHANGED <<pending, log>>
       \/ /\ ExceptPending(j, "index.pkl not written")
          /\ UNCHANGED index_pkl
    /\ UNCHANGED <<env, faiss_dir, index_faiss, uploads, req, answer>>
    /\ UNCHANGED chunkVars

\* upload_pdf without background tasks: the pipeline ran inline; its result is
\* returned, or its exception reaches the except clause
InlineReturn(r) ==
    /\ req[r].pc = "inline"
    /\ job[r].pc \in {"returned", "raised"}
    /\ IF job[r].pc = "returned"
       THEN /\ req' = [req EXCEPT ![r].pc = "done",
                                   ![r].resp = [status_code |-> 200, body |-> job[r].result]]
            /\ UNCHANGED uploads
       ELSE /\ uploads' = [uploads EXCEPT ![r] = ExceptRemove(uploads[r])]
            /\ req' = [req EXCEPT ![r].pc = "done",
                                   ![r].resp = [status_code |-> 500,
                                                body |-> ExceptClause(job[r].error)]]
    /\ UNCHANGED <<env, faiss_dir, index_faiss, index_pkl, pending, log, job, answer>>
    /\ UNCHANGED chunkVars

\* ------------------------------------------------------------------ rag_chat.py
\* search_kwargs={"k": 6}
TOP_K == 6
\* len(text) < 80 drops a chunk (80 characters, at the scale of the chunk size: 2)
MIN_CONTEXT_CHARS == 2
\* text[:300]
SNIPPET_CHARS == 300

\* dict.get(key, default) on a metadata record
Get(md, key, default) == IF key \in DOMAIN md THEN md[key] ELSE default

\* the rankings a similarity search over n vectors may return: the k nearest,
\* in any order of nearness
Rankings(n) ==
    LET m == Min(TOP_K, n)
    IN {s \in [1..m -> 1..n] : \A a, b \in 1..m : a # b => s[a] # s[b]}

\* (mutation of FilterDocs: a source record is built for a skipped document too)
RECURSIVE FilterDocs_CitesAll(_, _, _)
FilterDocs_CitesAll(docs, context_chunks, sources) ==
    IF docs = <<>> THEN [context_chunks |-> context_chunks, sources |-> sources]
    ELSE LET d == Head(docs)
             text == Strip(d.page_content)
             cited == Append(sources,
                             [source |-> Get(d.metadata, "source", "unknown"),
                              chunk |-> Get(d.metadata, "chunk", <<>>),
                              snippet |-> SliceTo(text, SNIPPET_CHARS)])
         IN IF Len(text) < MIN_CONTEXT_CHARS
            THEN FilterDocs_CitesAll(Tail(docs), context_chunks, cited)
            ELSE FilterDocs_CitesAll(Tail(docs), Append(context_chunks, text), cited)

\* the for loop of answer_question over the retrieved documents
RECURSIVE FilterDocs(_, _, _)
FilterDocs(docs, context_chunks, sources) ==
    IF docs = <<>> THEN [context_chunks |-> context_chunks, sources |-> sources]
    ELSE LET d == Head(docs)
             text == Strip(d.page_content)
         IN IF Len(text) < MIN_CONTEXT_CHARS
            THEN FilterDocs(Tail(docs), context_chunks, sources)
            ELSE FilterDocs(Tail(docs), Append(context_chunks, text),
                            Append(sources,
                                   [source |-> Get(d.metadata, "source", "unknown"),
                                    chunk |-> Get(d.metadata, "chunk", <<>>),
                                    snippet |-> SliceTo(text, SNIPPET_CHARS)]))

Raised(msg) == [kind |-> "raised", text |-> msg, sources |-> <<>>, context |-> <<>>]
Returned(text, sources, context) ==
    [kind |-> "returned", text |-> text, sources |-> sources, context |-> context]

\* answer_question(question): load_retriever, retrieve, filter, generate
AnswerQuestion ==
    /\ IF ~faiss_dir
       THEN \* os.path.isdir(FAISS_DIR) is false: load_retriever returns None
            answer' = Returned("No documents indexed yet.", <<>>, <<>>)
       ELSE IF ~env.chat
       THEN answer' = Raised("OPENAI_API_KEY not set")
       ELSE IF index_faiss = NoFile \/ index_pkl = NoFile
       THEN \* FAISS.load_local finds no index file to read
            answer' = Raised("load_local: no such file")
       ELSE \E hits \in Rankings(Len(Content(index_faiss))) :
            IF \E i \in 1..Len(hits) : hits[i] \notin DOMAIN Content(index_pkl)
            THEN \* a vector with no docstore entry
                 answer' = Raised("Could not find document for id")
            ELSE LET docs == [i \in 1..Len(hits) |-> Content(index_pkl)[hits[i]]]
                     f == FilterDocs(docs, <<>>, <<>>)
                 IN IF docs = <<>>
                    THEN answer' = Returned("No relevant information found in the documents.",
                                            <<>>, <<>>)
                    ELSE IF f.context_chunks = <<>>
                    THEN answer' = Returned("Not enough meaningful context to answer.",
                                            <<>>, <<>>)
                    ELSE \* llm.invoke(prompt), which may fail
                         \/ answer' = Returned("generated", f.sources, f.context_chunks)
                         \/ answer' = Raised("llm.invoke failed")
    /\ UNCHANGED <<env, faiss_dir, index_faiss, index_pkl, pending, uploads, log, req, job>>
    /\ UNCHANGED chunkVars

Next ==
    \/ StartIngestion
    \/ \E r \in Reqs : UploadPdf(r)
    \/ \E r \in Reqs : RunIndexSync(r)
    \/ \E j \in Reqs : JobStart(j)
    \/ \E j \in Reqs : FromTexts(j)
    \/ \E j \in Reqs : SaveFaiss(j)
    \/ \E j \in Reqs : SavePkl(j)
    \/ \E r \in Reqs : InlineReturn(r)
    \/ AnswerQuestion

Spec == Init /\ [][Next]_vars

\* ------------------------------------------------------------------ ingestion claims
\* the chunks a job's document yields (none once its temp file is gone)
JobChunks(j) ==
    IF uploads[job[j].pdf_path] = NoFile THEN <<>>
    ELSE ChunksFromPages(extract_text_page_by_page(Content(uploads[job[j].pdf_path])),
                         DEFAULT_CHUNK_SIZE, DEFAULT_OVERLAP)

Started(j) == job[j].pc \notin {"none", "queued"}

ReturnsPending(j) ==
    /\ job[j].pc # "returned"
    /\ job'[j].pc = "returned"
    /\ job'[j].result.status = "pending_embeddings"

IndexBuilt == \E j \in Reqs : job[j].result.status = "indexed"

\* C1: with no embedder (OPENAI_API_KEY unset) and at least one chunk, a run of
\* process_and_index_faiss returns pending_embeddings without raising, the
\* pending file named after file_hash exists, and the index files are untouched.
C1_NoEmbedderQueuesPending ==
    \A j \in Reqs :
        (Started(j) /\ ~env.ingest /\ JobChunks(j) # <<>>)
            => /\ job[j].pc = "returned"
               /\ job[j].result.status = "pending_embeddings"
               /\ job[j].result.pending_file
                      = <<"./faiss_store/pending", "pending_", job[j].file_hash, ".json">>
               /\ pending[job[j].file_hash] # NoFile
               /\ Content(pending[job[j].file_hash]).file_hash = job[j].file_hash
               /\ index_faiss = NoFile
               /\ index_pkl = NoFile

\* a run without embedder that queued the three chunks of a document
C1_Witness ==
    \E j \in Reqs :
        /\ ~env.ingest
        /\ job[j].pc = "returned"
        /\ job[j].result.status = "pending_embeddings"
        /\ job[j].result.chunks = 3
        /\ pending[job[j].file_hash] # NoFile

\* C2: when FAISS.from_texts or save_local fails, the run writes the pending
\* file with the reason recorded, and the index files on disk are what they were
\* when the build began.
C2_FailedBuildLeavesIndexAsBefore ==
    [][\A j \in Reqs :
        (ReturnsPending(j) /\ job[j].pc \in {"from_texts", "save_faiss", "save_pkl"})
            => /\ pending'[job[j].file_hash] # NoFile
               /\ job'[j].result.reason # Absent
               /\ <<index_faiss', index_pkl'>> = job[j].index_before]_vars

\* C3: at the step in which a run returns pending_embeddings, the pending file
\* of its file_hash holds the run's filename, its chunk texts and its metadata
\* records, in order, as many of each as the chunk count returned.
C3_PendingFileCompleteAtReturn ==
    [][\A j \in Reqs :
        ReturnsPending(j)
            => /\ pending'[job[j].file_hash] # NoFile
               /\ LET batch == Content(pending'[job[j].file_hash])
                      chunk_objs == JobChunks(j)
                  IN /\ batch.filename = job[j].original_filename
                     /\ batch.file_hash = job[j].file_hash
                     /\ batch.chunks = TextsOf(chunk_objs)
                     /\ Len(batch.metadatas) = Len(chunk_objs)
                     /\ \A i \in 1..Len(chunk_objs) :
                            /\ batch.metadatas[i].source = job[j].original_filename
                            /\ batch.metadatas[i].pages = chunk_objs[i].pages
                     /\ job'[j].result.chunks = Len(chunk_objs)
                     /\ chunk_objs # <<>>]_vars

\* a run that fell back to the pending file after a failed build of three chunks
C3_Witness ==
    \E j \in Reqs :
        /\ job[j].pc = "returned"
        /\ job[j].result.status = "pending_embeddings"
        /\ job[j].result.reason # Absent
        /\ job[j].result.chunks = 3
        /\ pending[job[j].file_hash] # NoFile
        /\ Len(Content(pending[job[j].file_hash]).metadatas) = 3

\* C4: as long as no run has returned "indexed", every answer_question call
\* returns ("No documents indexed yet.", []) and does not raise.
C4_NoIndexFixedResult ==
    (~IndexBuilt /\ answer.kind # "none")
        => /\ answer.kind = "returned"
           /\ answer.text = "No documents indexed yet."
           /\ answer.sources = <<>>

\* C5: an upload whose bytes exceed MAX_BYTES is answered with the size-limit
\* error 413 (neither 400 nor 500), its temp file is gone, and no pipeline ran.
C5_OversizeIs413 ==
    \A r \in Reqs :
        (req[r].pc = "done" /\ EndsWithPdf(req[r].filename)
            /\ DocSize(req[r].body) > MAX_BYTES)
            => /\ req[r].resp.status_code = 413
               /\ uploads[r] = NoFile
               /\ job[r].pc = "none"

\* ------------------------------------------------------------------ chunking claims
IsAscending(seq) == \A i \in 1..(Len(seq) - 1) : seq[i] < seq[i + 1]

RECURSIVE TotalLength(_)
TotalLength(pgs) == IF pgs = <<>> THEN 0 ELSE Len(Head(pgs)[2]) + TotalLength(Tail(pgs))

\* the page texts in order, each preceded by the separator
RECURSIVE Joined(_)
Joined(pgs) == IF pgs = <<>> THEN <<>> ELSE <<NL>> \o Head(pgs)[2] \o Joined(Tail(pgs))

AllBlank(pgs) == \A i \in 1..Len(pgs) : Strip(pgs[i][2]) = <<>>

\* C6: for 0 <= overlap < chunk_size the run terminates, and every chunk but
\* possibly the last one has a text of at most chunk_size characters.
C6_TerminatesWithBoundedChunks ==
    /\ [](\A i \in 1..(Len(chunks) - 1) : Len(chunks[i].text) <= chunk_size)
    /\ <>(cpc = "done")

\* a finished run that yielded a full window and then a remainder
C6_Witness ==
    /\ cpc = "done"
    /\ overlap > 0
    /\ \E i \in 1..(Len(chunks) - 1) : Len(chunks[i].text) = chunk_size

\* C7: every yielded chunk carries a non-empty, ascending list of page numbers.
C7_PagesNonEmptyAscending ==
    \A i \in 1..Len(chunks) : chunks[i].pages # <<>> /\ IsAscending(chunks[i].pages)

\* C8: when a document yields exactly 3 chunks whose texts span pages {1,2},
\* {2,3} and {3}, the metadata records carry the page lists [1,2], [2,3], [3].
C8_ThreeChunkPageSets ==
    (cpc = "done" /\ spans = <<{1, 2}, {2, 3}, {3}>>)
        => LET m == Metadatas(chunks, "doc.pdf")
           IN /\ Len(m) = 3
              /\ m[1].pages = <<1, 2>>
              /\ m[2].pages = <<2, 3>>
              /\ m[3].pages = <<3>>

\* C9 as stated: a non-blank page sequence whose page texts have a total length
\* below chunk_size yields exactly one chunk, the full trimmed text.
C9_ShortTextOneChunk ==
    (cpc = "done" /\ ~AllBlank(all_pages) /\ TotalLength(all_pages) < chunk_size)
        => (Len(chunks) = 1 /\ chunks[1].text = Strip(Joined(all_pages)))

\* C9 amended: the length that counts is that of the buffer, where every page
\* text is preceded by the one-character separator.
C9_ShortBufferOneChunk ==
    (cpc = "done" /\ ~AllBlank(all_pages)
        /\ TotalLength(all_pages) + Len(all_pages) < chunk_size)
        => (Len(chunks) = 1 /\ chunks[1].text = Strip(Joined(all_pages)))

\* a finished run over two pages that fit the window together, with whitespace to trim
C9_Witness ==
    /\ cpc = "done"
    /\ Len(all_pages) = 2
    /\ ~AllBlank(all_pages)
    /\ TotalLength(all_pages) + Len(all_pages) < chunk_size
    /\ Len(chunks) = 1
    /\ Len(chunks[1].text) < Len(Joined(all_pages)) - 1

\* C10: a page sequence of only empty or whitespace-only pages yields no chunk.
C10_BlankYieldsNothing ==
    (cpc = "done" /\ AllBlank(all_pages)) => chunks = <<>>

\* ------------------------------------------------------------------ error handling claims
\* the run of job j is at the chunking step, its file is there, and chunking
\* yields nothing
ChunksNothing(j) ==
    /\ job[j].pc = "queued"
    /\ uploads[job[j].pdf_path] # NoFile
    /\ JobChunks(j) = <<>>

\* C11: when chunking yields no chunks, the run ends by raising the no-chunks
\* RuntimeError: in that step no pending file is written, nothing is logged and
\* the index files stay as they are; a caller that ran the pipeline inline
\* reports that error.
C11_NoChunksRaisesAndQueuesNothing ==
    /\ [][\A j \in Reqs :
            (ChunksNothing(j) /\ job'[j] # job[j])
                => /\ job'[j].pc = "raised"
                   /\ job'[j].error = [type |-> "RuntimeError", status_code |-> 0,
                                       detail |-> "No chunks extracted from PDF"]
                   /\ job'[j].result = NoResult
                   /\ pending' = pending
                   /\ log' = log
                   /\ index_faiss' = index_faiss
                   /\ index_pkl' = index_pkl]_vars
    /\ [](\A r \in Reqs :
            (req[r].pc = "done" /\ job[r].pc = "raised" /\ job[r].inline)
                => /\ req[r].resp.status_code = 500
                   /\ req[r].resp.body.detail
                          = <<"str", "RuntimeError", 0, "No chunks extracted from PDF">>)

\* a blank document ingested inline after another document was queued as pending
C11_Witness ==
    \E j, k \in Reqs :
        /\ job[j].pc = "raised"
        /\ job[j].inline
        /\ req[j].pc = "done"
        /\ job[k].result.status = "pending_embeddings"
        /\ pending[job[k].file_hash] # NoFile
        /\ pending[job[j].file_hash] = NoFile

\* ------------------------------------------------------------------ retrieval claims
\* the retrieved documents that pass the minimum-length filter, in order
Survivors(docs) ==
    SelectSeq(docs, LAMBDA d : Len(Strip(d.page_content)) >= MIN_CONTEXT_CHARS)

\* the documents a ranking retrieves from the index files on disk
Retrieved(hits) == [i \in 1..Len(hits) |-> Content(index_pkl)[hits[i]]]

NotEnough == "Not enough meaningful context to answer."

\* C12: an answer_question call that gets past retrieval returns one source
\* record per retrieved document that passed the minimum-length filter, in the
\* order of retrieval, each with the document's file name and the head of its
\* trimmed text, and the context holds the same documents' trimmed texts; when
\* none passes, it returns the fixed not-enough-context text and no sources.
C12_SourcesAreTheSurvivors ==
    /\ [][(answer' # answer /\ answer'.kind = "returned"
             /\ answer'.text \in {"generated", NotEnough})
            => /\ index_faiss # NoFile
               /\ index_pkl # NoFile
               /\ \E hits \in Rankings(Len(Content(index_faiss))) :
                    /\ \A i \in 1..Len(hits) : hits[i] \in DOMAIN Content(index_pkl)
                    /\ LET s == Survivors(Retrieved(hits))
                       IN /\ (answer'.text = NotEnough) <=> (s = <<>>)
                          /\ Len(answer'.sources) = Len(s)
                          /\ Len(answer'.context) = Len(s)
                          /\ \A i \in 1..Len(s) :
                               /\ answer'.sources[i].source = s[i].metadata.source
                               /\ answer'.sources[i].snippet
                                      = SliceTo(Strip(s[i].page_content), SNIPPET_CHARS)
                               /\ answer'.context[i] = Strip(s[i].page_content)]_vars
    /\ [](answer.text = NotEnough => answer.sources = <<>>)

\* an answer over an index of three chunks of which one was too short to be used
C12_Witness ==
    /\ answer.kind = "returned"
    /\ answer.text = "generated"
    /\ Len(answer.sources) = 2
    /\ index_pkl # NoFile
    /\ Len(Content(index_pkl)) = 3

\* an answer over an index whose only chunk was too short
C12_NotEnoughReached == answer.text = NotEnough /\ index_pkl # NoFile

\* C13: every source record of an answer carries the page numbers its chunk was
\* stored with: for a retrieved chunk whose metadata holds the page list P, not
\* empty, the record's "chunk" field is P.
C13_SourceCarriesPages ==
    [][(answer' # answer /\ answer'.kind = "returned" /\ answer'.text = "generated")
        => \E hits \in Rankings(Len(Content(index_faiss))) :
             /\ \A i \in 1..Len(hits) : hits[i] \in DOMAIN Content(index_pkl)
             /\ LET s == Survivors(Retrieved(hits))
                IN /\ Len(answer'.sources) = Len(s)
                   /\ \A i \in 1..Len(s) :
                        s[i].metadata.pages # <<>>
                            => answer'.sources[i].chunk = s[i].metadata.pages]_vars

\* ------------------------------------------------------------------ index claims
ReturnsIndexed(j) ==
    /\ job[j].pc # "returned"
    /\ job'[j].pc = "returned"
    /\ job'[j].result.status = "indexed"

\* the chunk texts and file names the docstore file holds
Indexed(file) ==
    IF file = NoFile THEN {}
    ELSE {<<Content(file)[i].metadata.source, Content(file)[i].page_content>> :
            i \in DOMAIN Content(file)}

\* the chunk texts of a job's document under its file name
ChunksOfJob(j) ==
    {<<job[j].original_filename, job[j].texts[i]>> : i \in DOMAIN job[j].texts}

\* C14: at the step in which a run returns "indexed", the index on disk holds
\* the chunks of that run's document and the chunks of every document whose run
\* returned "indexed" before.
C14_IndexedKeepsEarlierDocuments ==
    [][\A j \in Reqs :
        ReturnsIndexed(j)
            => /\ ChunksOfJob(j) \subseteq Indexed(index_pkl')
               /\ \A k \in Reqs :
                    job[k].result.status = "indexed"
                        => ChunksOfJob(k) \subseteq Indexed(index_pkl')]_vars

\* the two index files as one build of job w's document leaves them
BuildOf(w) ==
    <<File(Vectors(job[w].texts)), File(Docstore(job[w].texts, job[w].metadatas))>>

\* C15: when two background runs have both returned "indexed", the two index
\* files on disk are the build of one of them, as running the two one after the
\* other would leave them, and not one file of each.
C15_ConcurrentBuildsLeaveOneBuild ==
    \A j, k \in Reqs :
        (j # k /\ ~job[j].inline /\ ~job[k].inline
            /\ job[j].result.status = "indexed" /\ job[k].result.status = "indexed")
            => (<<index_faiss, index_pkl>> \in {BuildOf(j), BuildOf(k)})

\* job j is in the middle of save_local, replacing the index job k built
Replacing(j, k) ==
    /\ j # k
    /\ job[j].pc = "save_pkl"
    /\ job[k].result.status = "indexed"
    /\ job[j].index_before = BuildOf(k)

\* C16: an answer_question call made while a run is replacing the index loads
\* either the index as it was before that run or the index that run builds, and
\* does not raise for want of an index file or of a docstore entry.
C16_ReaderSeesWholeIndex ==
    [][(answer' # answer /\ env.chat /\ \E j, k \in Reqs : Replacing(j, k))
        => /\ \E j, k \in Reqs :
                Replacing(j, k) /\ <<index_faiss, index_pkl>> \in {BuildOf(j), BuildOf(k)}
           /\ ~(answer'.kind = "raised"
                  /\ answer'.text \in {"load_local: no such file",
                                       "Could not find document for id"})]_vars

\* ------------------------------------------------------------------ pending batch claims
\* C17: every pending file lies under the hash it records, and at the step in
\* which a run returns pending_embeddings, on either path, the pending file of
\* its hash is exactly that run's batch (file name, hash, chunk texts, metadata
\* records), whatever the file held before, and no other pending file changes.
C17_PendingOverwrittenPerHash ==
    /\ [](\A h \in DOMAIN pending :
            pending[h] # NoFile => Content(pending[h]).file_hash = h)
    /\ [][\A j \in Reqs :
            ReturnsPending(j)
                => /\ pending'[job[j].file_hash]
                          = <<[filename |-> job[j].original_filename,
                               file_hash |-> job[j].file_hash,
                               chunks |-> TextsOf(JobChunks(j)),
                               metadatas |-> Metadatas(JobChunks(j),
                                                       job[j].original_filename)]>>
                   /\ \A h \in DOMAIN pending :
                        h # job[j].file_hash => pending'[h] = pending[h]]_vars

\* the same bytes ingested twice under two file names, both runs queued after a
\* failed build: the one pending file of the hash holds one of the two names
C17_Witness ==
    \E j, k \in Reqs :
        /\ job[j].file_hash = job[k].file_hash
        /\ job[j].original_filename # job[k].original_filename
        /\ job[j].result.status = "pending_embeddings"
        /\ job[k].result.status = "pending_embeddings"
        /\ job[j].result.reason # Absent
        /\ Len(log) = 2
        /\ Content(pending[job[j].file_hash]).filename = job[k].original_filename

\* the chunk texts of a document under the default chunking
DocTexts(d) ==
    TextsOf(ChunksFromPages(extract_text_page_by_page(d),
                            DEFAULT_CHUNK_SIZE, DEFAULT_OVERLAP))

\* C18: every run is given the sha256 of its file's bytes as file_hash, and so
\* every pending file lies under the hash of the one document whose chunks it
\* holds.
C18_PendingKeyedByContentHash ==
    /\ \A j \in Reqs :
        (job[j].pc # "none" /\ uploads[job[j].pdf_path] # NoFile)
            => job[j].file_hash = <<"sha256", Content(uploads[job[j].pdf_path])>>
    /\ \A h \in DOMAIN pending :
        pending[h] # NoFile
            => \E d \in Docs :
                /\ h = <<"sha256", d>>
                /\ Content(pending[h]).chunks = DocTexts(d)

\* ------------------------------------------------------------------ upload claims
\* request r was answered with an error after its temp file had been made
FailedAfterTemp(r) ==
    /\ req[r].pc = "done"
    /\ EndsWithPdf(req[r].filename)
    /\ req[r].resp.status_code # 200

\* C19: when upload_pdf reports an error that arose after mkstemp (in the write
\* loop, in sha256_of_file, or in the pipeline run inline), the temp file of the
\* request is gone, and the error reported is the HTTPException with status 500
\* that carries str(e).
C19_FailedUploadRemovesTemp ==
    \A r \in Reqs :
        FailedAfterTemp(r)
            => /\ uploads[r] = NoFile
               /\ req[r].resp.status_code = 500
               /\ req[r].resp.body.type = "HTTPException"
               /\ req[r].resp.body.status_code = 500
               /\ req[r].resp.body.detail[1] = "str"

\* one upload failed while its temp file was being written, another one in the
\* pipeline that ran inline
C19_Witness ==
    \E r, q \in Reqs :
        /\ FailedAfterTemp(r)
        /\ req[r].resp.body.detail[2] = "OSError"
        /\ FailedAfterTemp(q)
        /\ req[q].resp.body.detail[2] = "RuntimeError"
        /\ job[q].pc = "raised"

\* ------------------------------------------------------------------ window claims
\* the concatenated page stream: every page text after its separator
Stream == Joined(all_pages)

\* the part of the stream read so far
StreamRead == Joined(SubSeq(all_pages, 1, Len(all_pages) - Len(pages)))

\* the distance between the starts of two consecutive windows
Stride == chunk_size - overlap

\* the i-th window of the stream: chunk_size characters from (i - 1) * Stride
\* on, or what is left of the stream there
Window(i) ==
    SubSeq(Stream, (i - 1) * Stride + 1,
           Min((i - 1) * Stride + chunk_size, Len(Stream)))

\* C20: for overlap < chunk_size the i-th chunk is the trimmed i-th window of
\* the concatenated page stream, the windows starting chunk_size - overlap
\* characters apart: every chunk but the last has a window of chunk_size
\* characters, the window after it has at least the overlap characters it
\* shares with it, and while the run lasts the buffer is the stream read so far
\* from the start of the next window on.
C20_WindowsStrideApart ==
    /\ \A i \in 1..Len(chunks) :
        /\ chunks[i].text = Strip(Window(i))
        /\ i < Len(chunks)
            => /\ Len(Window(i)) = chunk_size
               /\ Len(Window(i + 1)) >= overlap
    /\ cpc \in {"for", "while"}
        => buf.buffer = SubSeq(StreamRead, Len(chunks) * Stride + 1, Len(StreamRead))

\* a finished run over two pages or more that yielded two overlapping windows
\* and a remainder
C20_Witness ==
    /\ cpc = "done"
    /\ overlap > 0
    /\ Len(all_pages) >= 2
    /\ Len(chunks) >= 3
    /\ Len(Window(Len(chunks))) < chunk_size
    /\ Stride > 1

\* ------------------------------------------------------------------ page set claims
\* the page numbers a chunk carries
PagesOf(chunk) == {chunk.pages[i] : i \in DOMAIN chunk.pages}

\* the numbers of the pages the for loop has appended so far
PagesRead == {all_pages[i][1] : i \in 1..(Len(all_pages) - Len(pages))}

\* C21: in a run over pages with distinct page numbers no page number is in
\* the page lists of two chunks, nor twice in one list: the page set is empty
\* right after every window is yielded, and every page appended so far is
\* either in the page list of one chunk or still in the page set of the buffer.
C21_PageInAtMostOneChunk ==
    /\ [](\A i, j \in 1..Len(chunks) :
            i # j => PagesOf(chunks[i]) \cap PagesOf(chunks[j]) = {})
    /\ [](\A i \in 1..Len(chunks) :
            /\ Cardinality(PagesOf(chunks[i])) = Len(chunks[i].pages)
            /\ PagesOf(chunks[i]) \cap buf.buffer_pages = {} \/ cpc = "done")
    /\ [](cpc \in {"for", "while"}
            => PagesRead = buf.buffer_pages
                             \cup UNION {PagesOf(chunks[i]) : i \in 1..Len(chunks)})
    /\ [][Len(chunks') > Len(chunks) /\ cpc' # "done" => buf'.buffer_pages = {}]_vars

\* a finished run over three pages in which an earlier chunk carries two
\* pages and a later chunk the third
C21_Witness ==
    /\ cpc = "done"
    /\ Len(all_pages) = 3
    /\ \E i, j \in 1..Len(chunks) :
        /\ i < j
        /\ Len(chunks[i].pages) = 2
        /\ chunks[j].pages # <<>>
    /\ UNION {PagesOf(chunks[i]) : i \in 1..Len(chunks)} = {1, 2, 3}

====
